---------------------------- MODULE Spec2Model ----------------------------
(***************************************************************************)
(* Trade-Dashboard: the Dash application of app.py and the theme table of  *)
(* styles.py.                                                              *)
(*                                                                         *)
(* The state is the state of the page: the three kinds of input widgets    *)
(* (ticker text, theme switch, the period and interval buttons' n_clicks), *)
(* the three callback outputs (live-price, stock-chart, page-content       *)
(* style), the callbacks the host still has to run, and what the last run  *)
(* of update_stock_price printed and received from the market-data gateway.*)
(***************************************************************************)
EXTENDS Integers, Sequences, FiniteSets, TLC

VARIABLES
    stock_input,      \* value of dcc.Input "stock-input"
    theme_switch,     \* value of dbc.Switch "theme-switch"
    period_clicks,    \* n_clicks of the five period buttons, indexed 0..4
    interval_clicks,  \* n_clicks of the five interval buttons, indexed 0..4
    live_price,       \* children of "live-price"
    stock_chart,      \* figure of "stock-chart"
    page_style,       \* style of "page-content"
    pending,          \* callbacks triggered and not yet run by the host
    printed,          \* what update_stock_price printed last (line 96)
    gateway,          \* what yfinance did in the last update_stock_price call
    unhandled         \* TRUE once an exception escaped a callback

vars == <<stock_input, theme_switch, period_clicks, interval_clicks, live_price,
          stock_chart, page_style, pending, printed, gateway, unhandled>>

----------------------------------------------------------------------------
(* Bounds of the model *)

\* Total number of button clicks in a run.
MaxClicks == 3

\* Ticker texts the user types.
Tickers == {"", "AAPL"}

\* str(e) of the exceptions the gateway raises.
Messages == {"No data found"}

\* Last prices the gateway reports, in thousandths of a dollar.
Prices == {123400}

\* Non-empty bar series the gateway returns.
Bar1 == [Open |-> 10, High |-> 12, Low |-> 9, Close |-> 11]
Bar2 == [Open |-> 11, High |-> 11, Low |-> 8, Close |-> 9]
BarSeries == {<<Bar1, Bar2>>}

----------------------------------------------------------------------------
(* styles.py *)

light_theme ==
    [background |-> "#FFFFFF", text |-> "#000000", graph_bg |-> "#F5F5F5",
     graph_text |-> "#000000", font |-> "Arial, sans-serif"]

dark_theme ==
    [background |-> "#2C2C2C", text |-> "#E0E0E0", graph_bg |-> "#3A3A3A",
     graph_text |-> "#FFFFFF", font |-> "Arial, sans-serif"]

get_global_styles(selected_theme) ==
    LET theme == IF selected_theme = "dark" THEN dark_theme ELSE light_theme
    IN  [backgroundColor |-> theme.background,
         color           |-> theme.text,
         height          |-> "100vh",
         width           |-> "100vw",
         fontFamily      |-> theme.font,
         padding         |-> "20px",
         transition      |-> "background-color 0.5s ease"]

----------------------------------------------------------------------------
(* app.py: options and layout *)

Indices == 0 .. 4

period_options ==
    LET o == <<"1d", "5d", "1mo", "3mo", "1y">> IN [i \in Indices |-> o[i + 1]]

interval_options ==
    LET o == <<"1m", "5m", "15m", "1h", "1d">> IN [i \in Indices |-> o[i + 1]]

\* Python's None, for an n_clicks that was never set and for an absent price.
None == -1

\* Python truth of an n_clicks value: None and 0 are falsy.
Truthy(v) == v # None /\ v # 0

\* The style of a component whose style was never set.
NoStyle ==
    [backgroundColor |-> "", color |-> "", height |-> "", width |-> "",
     fontFamily |-> "", padding |-> "", transition |-> ""]

\* go.Figure(): no trace, an empty layout.
EmptyLayout ==
    [title |-> "", xaxis_title |-> "", yaxis_title |-> "", plot_bgcolor |-> "",
     paper_bgcolor |-> "", font_color |-> "", xaxis_gridcolor |-> "",
     yaxis_gridcolor |-> ""]

EmptyFigure == [data |-> <<>>, layout |-> EmptyLayout]

Callbacks == {"update_stock_price", "update_theme"}


----------------------------------------------------------------------------
(* The market-data gateway (yfinance), as update_stock_price sees it *)

\* Exception classes the gateway and the price formatting raise; each is a
\* subclass of Exception.
ExceptionSubclasses == {"ValueError", "KeyError", "ConnectionError", "TypeError"}

NoException == [type |-> "", message |-> ""]

\* One call's worth of gateway behaviour: where it raises (yf.Ticker,
\* fast_info["lastPrice"], history, or nowhere), the exception raised there, the
\* last price read before that (None when absent) and the bar series.
GatewayRaises ==
    { [raises |-> r[1], exc |-> [type |-> r[2], message |-> m],
       lastPrice |-> None, bars |-> <<>>] :
        r \in {<<"Ticker", "ValueError">>, <<"fast_info", "KeyError">>},
        m \in Messages }
    \cup
    { [raises |-> "history", exc |-> [type |-> "ConnectionError", message |-> m],
       lastPrice |-> p, bars |-> <<>>] :
        p \in Prices, m \in Messages }

GatewayReturns ==
    { [raises |-> "none", exc |-> NoException, lastPrice |-> p, bars |-> b] :
        p \in Prices \cup {None}, b \in BarSeries \cup {<<>>} }

GatewayOutcomes == GatewayRaises \cup GatewayReturns

\* The gateway before the first call.
NotCalled ==
    [raises |-> "not called", exc |-> NoException, lastPrice |-> None, bars |-> <<>>]

----------------------------------------------------------------------------
(* app.py: update_stock_price *)

Digit(d) == <<"0", "1", "2", "3", "4", "5", "6", "7", "8", "9">>[d + 1]

RECURSIVE ToStr(_)
ToStr(n) == IF n < 10 THEN Digit(n) ELSE ToStr(n \div 10) \o Digit(n % 10)

\* f"{latest_price:.2f}" of a price given in thousandths: rounded to the nearest
\* cent, two decimals always printed.  None has no such format: TypeError.
Format2f(p) ==
    LET cents == (p + 5) \div 10
    IN  ToStr(cents \div 100) \o "." \o Digit((cents % 100) \div 10) \o Digit(cents % 10)

\* next((i for i, v in enumerate(clicks) if v), 0)
RECURSIVE ScanFrom(_, _)
ScanFrom(clicks, i) ==
    IF i \notin DOMAIN clicks THEN 0
    ELSE IF Truthy(clicks[i]) THEN i
    ELSE ScanFrom(clicks, i + 1)

\* The scan started from the last button: the last truthy counter wins.
RECURSIVE ScanBack(_, _)
ScanBack(clicks, i) ==
    IF i \notin DOMAIN clicks THEN 0
    ELSE IF Truthy(clicks[i]) THEN i
    ELSE ScanBack(clicks, i - 1)

FirstTruthy_Last(clicks) == ScanBack(clicks, 4)

\* The button clicked most often wins.
FirstTruthy_MostClicked(clicks) ==
    IF \A i \in DOMAIN clicks : ~Truthy(clicks[i]) THEN 0
    ELSE CHOOSE i \in DOMAIN clicks :
            /\ \A j \in DOMAIN clicks : clicks[j] <= clicks[i]
            /\ \A j \in DOMAIN clicks : clicks[j] = clicks[i] => i <= j

FirstTruthy(clicks) == ScanFrom(clicks, 0)

\* The other theme's palette.
SelectTheme_Swapped(selected_theme) ==
    IF selected_theme = "dark" THEN light_theme ELSE dark_theme

\* theme = dark_theme if selected_theme == "dark" else light_theme
SelectTheme(selected_theme) ==
    IF selected_theme = "dark" THEN dark_theme ELSE light_theme

\* except KeyError: only the failed price lookup is caught.
Catches_KeyError(exc) == exc.type = "KeyError"

\* except Exception as e
Catches(exc) == exc.type \in ExceptionSubclasses

Returned(label, fig) ==
    [status |-> "return", live_price |-> label, figure |-> fig, exc |-> NoException]

Raised(exc) ==
    [status |-> "raise", live_price |-> "", figure |-> EmptyFigure, exc |-> exc]

\* The candlestick figure of lines 112-132.
CandlestickFigure(ticker, selected_theme, bars) ==
    LET theme == SelectTheme(selected_theme)
    IN  [data |-> << [type |-> "candlestick",
                      ohlc |-> bars,
                      increasing_line_color |->
                          IF selected_theme = "dark" THEN "lime" ELSE "green",
                      decreasing_line_color |-> "red"] >>,
         layout |-> [title           |-> ticker \o " Stock Price",
                     xaxis_title     |-> "Time",
                     yaxis_title     |-> "Price ($)",
                     plot_bgcolor    |-> theme.graph_bg,
                     paper_bgcolor   |-> theme.graph_bg,
                     font_color      |-> theme.graph_text,
                     xaxis_gridcolor |-> "gray",
                     yaxis_gridcolor |-> "gray"]]

\* A guard on the ticker text ahead of the gateway call.
TryBody_EmptyGuard(ticker, selected_theme, g) ==
    IF ticker = "" THEN Raised([type |-> "ValueError", message |-> "Empty ticker"])
    ELSE IF g.raises # "none" THEN Raised(g.exc)
    ELSE IF g.lastPrice = None THEN
        Raised([type |-> "TypeError",
                message |-> "unsupported format string passed to NoneType.__format__"])
    ELSE IF g.bars = <<>> THEN Returned("Invalid Ticker: " \o ticker, EmptyFigure)
    ELSE Returned("Current Price: $" \o Format2f(g.lastPrice),
                  CandlestickFigure(ticker, selected_theme, g.bars))

\* The body of the try statement, lines 99-134, in the order of the code: the
\* ticker object, the last price, its formatting, the history, the empty check,
\* the chart.
TryBody(ticker, selected_theme, g) ==
    IF g.raises = "Ticker" THEN Raised(g.exc)
    ELSE IF g.raises = "fast_info" THEN Raised(g.exc)
    ELSE IF g.lastPrice = None THEN
        Raised([type |-> "TypeError",
                message |-> "unsupported format string passed to NoneType.__format__"])
    ELSE IF g.raises = "history" THEN Raised(g.exc)
    ELSE IF g.bars = <<>> THEN Returned("Invalid Ticker: " \o ticker, EmptyFigure)
    ELSE Returned("Current Price: $" \o Format2f(g.lastPrice),
                  CandlestickFigure(ticker, selected_theme, g.bars))

\* update_stock_price with the gateway's behaviour g during the call.  The
\* result carries what was printed on line 96.
update_stock_price(ticker, is_dark_mode, pclicks, iclicks, g) ==
    LET selected_theme == IF is_dark_mode THEN "dark" ELSE "light"
        period   == period_options[FirstTruthy(pclicks)]
        interval == interval_options[FirstTruthy(iclicks)]
        line     == [ticker |-> ticker, period |-> period, interval |-> interval]
        r        == TryBody(ticker, selected_theme, g)
        out      == IF r.status = "raise" /\ Catches(r.exc)
                    THEN Returned("Error: " \o r.exc.message, EmptyFigure)
                    ELSE r
    IN  [status |-> out.status, live_price |-> out.live_price,
         figure |-> out.figure, printed |-> line]

----------------------------------------------------------------------------
(* app.py: update_theme *)

\* The other theme's colours.
update_theme_Swapped(is_dark_mode) ==
    LET theme == IF is_dark_mode THEN light_theme ELSE dark_theme
    IN  [backgroundColor |-> theme.background,
         color           |-> theme.text,
         height          |-> "100vh",
         width           |-> "100vw",
         fontFamily      |-> "Arial, sans-serif",
         padding         |-> "20px",
         transition      |-> "background-color 0.5s ease"]

\* Another literal font family.
update_theme_OtherFont(is_dark_mode) ==
    LET theme == IF is_dark_mode THEN dark_theme ELSE light_theme
    IN  [backgroundColor |-> theme.background,
         color           |-> theme.text,
         height          |-> "100vh",
         width           |-> "100vw",
         fontFamily      |-> "Helvetica, sans-serif",
         padding         |-> "20px",
         transition      |-> "background-color 0.5s ease"]

update_theme(is_dark_mode) ==
    LET theme == IF is_dark_mode THEN dark_theme ELSE light_theme
    IN  [backgroundColor |-> theme.background,
         color           |-> theme.text,
         height          |-> "100vh",
         width           |-> "100vw",
         fontFamily      |-> "Arial, sans-serif",
         padding         |-> "20px",
         transition      |-> "background-color 0.5s ease"]

----------------------------------------------------------------------------
(* The page and its host *)

NoLine == [ticker |-> "", period |-> "", interval |-> ""]

\* The page as laid out (lines 38-83), every callback triggered by the load.
\* A button's n_clicks starts at None or at 0, as the component library has it.
Init ==
    /\ stock_input = "AAPL"
    /\ theme_switch = FALSE
    /\ \E z \in {None, 0} :
          /\ period_clicks = [i \in Indices |-> z]
          /\ interval_clicks = [i \in Indices |-> z]
    /\ live_price = "Current Price: (Loading...)"
    /\ stock_chart = EmptyFigure
    /\ page_style = NoStyle
    /\ pending = Callbacks
    /\ printed = NoLine
    /\ gateway = NotCalled
    /\ unhandled = FALSE

Count(v) == IF v = None THEN 0 ELSE v

RECURSIVE SumFrom(_, _)
SumFrom(clicks, i) ==
    IF i \notin DOMAIN clicks THEN 0 ELSE Count(clicks[i]) + SumFrom(clicks, i + 1)

TotalClicks == SumFrom(period_clicks, 0) + SumFrom(interval_clicks, 0)

\* The user commits another ticker text (debounced input).
TypeTicker(t) ==
    /\ pending = {}
    /\ t # stock_input
    /\ stock_input' = t
    /\ pending' = {"update_stock_price"}
    /\ UNCHANGED <<theme_switch, period_clicks, interval_clicks, live_price,
                   stock_chart, page_style, printed, gateway, unhandled>>

\* The user flips the theme switch: an input of both callbacks.
ToggleTheme ==
    /\ pending = {}
    /\ theme_switch' = ~theme_switch
    /\ pending' = Callbacks
    /\ UNCHANGED <<stock_input, period_clicks, interval_clicks, live_price,
                   stock_chart, page_style, printed, gateway, unhandled>>

\* The user clicks period button i: its n_clicks goes up by one.
ClickPeriod(i) ==
    /\ pending = {}
    /\ TotalClicks < MaxClicks
    /\ period_clicks' = [period_clicks EXCEPT ![i] = Count(@) + 1]
    /\ pending' = {"update_stock_price"}
    /\ UNCHANGED <<stock_input, theme_switch, interval_clicks, live_price,
                   stock_chart, page_style, printed, gateway, unhandled>>

\* The user clicks interval button i.
ClickInterval(i) ==
    /\ pending = {}
    /\ TotalClicks < MaxClicks
    /\ interval_clicks' = [interval_clicks EXCEPT ![i] = Count(@) + 1]
    /\ pending' = {"update_stock_price"}
    /\ UNCHANGED <<stock_input, theme_switch, period_clicks, live_price,
                   stock_chart, page_style, printed, gateway, unhandled>>

\* The host runs update_stock_price on the current inputs and writes its two
\* outputs; an exception that leaves the callback leaves the outputs alone.
RunUpdateStockPrice ==
    /\ "update_stock_price" \in pending
    /\ \E g \in GatewayOutcomes :
          LET r == update_stock_price(stock_input, theme_switch, period_clicks,
                                      interval_clicks, g)
          IN  /\ gateway' = g
              /\ printed' = r.printed
              /\ IF r.status = "return"
                 THEN /\ live_price' = r.live_price
                      /\ stock_chart' = r.figure
                      /\ UNCHANGED unhandled
                 ELSE /\ unhandled' = TRUE
                      /\ UNCHANGED <<live_price, stock_chart>>
    /\ pending' = pending \ {"update_stock_price"}
    /\ UNCHANGED <<stock_input, theme_switch, period_clicks, interval_clicks,
                   page_style>>

\* The host runs update_theme and writes the page style.
RunUpdateTheme ==
    /\ "update_theme" \in pending
    /\ page_style' = update_theme(theme_switch)
    /\ pending' = pending \ {"update_theme"}
    /\ UNCHANGED <<stock_input, theme_switch, period_clicks, interval_clicks,
                   live_price, stock_chart, printed, gateway, unhandled>>

UserTypes == \E t \in Tickers : TypeTicker(t)

UserClicksPeriod == \E i \in Indices : ClickPeriod(i)

UserClicksInterval == \E i \in Indices : ClickInterval(i)

Next ==
    \/ UserTypes
    \/ ToggleTheme
    \/ UserClicksPeriod
    \/ UserClicksInterval
    \/ RunUpdateStockPrice
    \/ RunUpdateTheme

Spec == Init /\ [][Next]_vars

\* The host runs every callback it has triggered; nothing obliges the user to
\* touch the page.
FairSpec ==
    Spec /\ WF_vars(RunUpdateStockPrice) /\ WF_vars(RunUpdateTheme)

----------------------------------------------------------------------------
(* Properties *)

BeginsWith(s, p) == Len(s) >= Len(p) /\ SubSeq(s, 1, Len(p)) = p

\* update_stock_price has run on the inputs as they are now.
Ran == "update_stock_price" \notin pending /\ gateway.raises # "not called"

\* The period and interval the inputs resolve to (lines 94-95).
ResolvedPeriodIndex == FirstTruthy(period_clicks)

ResolvedIntervalIndex == FirstTruthy(interval_clicks)

AnyTruthy(clicks) == \E i \in Indices : Truthy(clicks[i])

\* value is the entry of the sequence options at the smallest truthy index of
\* clicks (index 0 is the first entry), or the first entry if none is truthy.
IsFirstTruthyOption(clicks, options, value) ==
    /\ \A i \in Indices :
          (Truthy(clicks[i]) /\ \A j \in Indices : j < i => ~Truthy(clicks[j]))
              => value = options[i + 1]
    /\ ~AnyTruthy(clicks) => value = options[1]

\* C1: the period update_stock_price works with is the option at the smallest
\* index whose period counter is truthy and "1d" when none is; the interval
\* likewise from the interval counters alone, "1m" when none is truthy; period
\* counters that are truthy at indices 1 and 4 only resolve to "5d".
C1_FirstTruthyResolution ==
    Ran =>
        /\ IsFirstTruthyOption(period_clicks, <<"1d", "5d", "1mo", "3mo", "1y">>,
                               printed.period)
        /\ IsFirstTruthyOption(interval_clicks, <<"1m", "5m", "15m", "1h", "1d">>,
                               printed.interval)
        /\ ({i \in Indices : Truthy(period_clicks[i])} = {1, 4}
               => printed.period = "5d")

\* Period buttons "5d" and "1y" were clicked, and interval button "15m".
C1_Witness ==
    /\ Ran
    /\ {i \in Indices : Truthy(period_clicks[i])} = {1, 4}
    /\ {i \in Indices : Truthy(interval_clicks[i])} = {2}
    /\ printed.period = "5d"
    /\ printed.interval = "15m"

\* C2: no exception leaves update_stock_price; when the gateway raised, in
\* yf.Ticker, in the price lookup or in history, the outputs are "Error: "
\* followed by the exception's message and the empty figure, in either theme;
\* every call ends with one of the three labels and a figure.
C2_ExceptionsCaught ==
    /\ unhandled = FALSE
    /\ Ran =>
          /\ gateway.raises \in {"Ticker", "fast_info", "history"} =>
                /\ live_price = "Error: " \o gateway.exc.message
                /\ stock_chart = EmptyFigure
          /\ \/ BeginsWith(live_price, "Error: ") /\ stock_chart = EmptyFigure
             \/ BeginsWith(live_price, "Invalid Ticker: ") /\ stock_chart = EmptyFigure
             \/ BeginsWith(live_price, "Current Price: $") /\ Len(stock_chart.data) = 1

\* history raised under the dark theme.
C2_Witness ==
    /\ Ran
    /\ theme_switch
    /\ gateway.raises = "history"
    /\ live_price = "Error: No data found"
    /\ stock_chart = EmptyFigure

\* C3: whenever the gateway raised nothing and its bar series is empty, the
\* last price being absent included, the label is "Invalid Ticker: " followed
\* by the ticker and the chart is empty.
C3_EmptyBarsInvalidTicker ==
    (Ran /\ gateway.raises = "none" /\ gateway.bars = <<>>) =>
        /\ live_price = "Invalid Ticker: " \o stock_input
        /\ stock_chart = EmptyFigure

\* C4 as stated: with an empty ticker text the label begins with "Error: " and
\* the chart is empty, whatever the gateway did.
C4_EmptyTickerIsError ==
    (Ran /\ stock_input = "") =>
        /\ BeginsWith(live_price, "Error: ")
        /\ stock_chart = EmptyFigure

\* C4 amended: an empty ticker text is handled like any other.  The label
\* begins with "Error: " exactly when the gateway raised or the last price is
\* absent, and the chart is then empty; when nothing raised, the price is there
\* and the bar series is empty, the label is "Invalid Ticker: " and the chart is
\* empty.
C4_EmptyTickerLikeAnyOther ==
    (Ran /\ stock_input = "") =>
        /\ BeginsWith(live_price, "Error: ")
              <=> (gateway.raises # "none" \/ gateway.lastPrice = None)
        /\ BeginsWith(live_price, "Error: ") => stock_chart = EmptyFigure
        /\ (gateway.raises = "none" /\ gateway.lastPrice # None /\ gateway.bars = <<>>)
              => live_price = "Invalid Ticker: " /\ stock_chart = EmptyFigure

\* The ticker text is empty and the gateway returned a price and no bars.
C4_Witness ==
    /\ Ran
    /\ stock_input = ""
    /\ gateway.raises = "none"
    /\ gateway.lastPrice # None
    /\ gateway.bars = <<>>
    /\ live_price = "Invalid Ticker: "

\* C5: once update_theme has run on the theme switch as it is, the page's
\* colours are those of the theme the switch selects, whatever became of the
\* price and the chart; and no run of update_stock_price changes the page style.
C5_PageStyleIndependent ==
    /\ []("update_theme" \notin pending =>
            /\ page_style.backgroundColor = IF theme_switch THEN "#2C2C2C" ELSE "#FFFFFF"
            /\ page_style.color = IF theme_switch THEN "#E0E0E0" ELSE "#000000")
    /\ [][("update_stock_price" \in pending /\ "update_stock_price" \notin pending')
            => page_style' = page_style]_vars

\* The switch was turned to dark and the price update it triggered failed.
C5_Witness ==
    /\ pending = {}
    /\ theme_switch
    /\ BeginsWith(live_price, "Error: ")
    /\ page_style.backgroundColor = "#2C2C2C"
    /\ page_style.color = "#E0E0E0"

\* C6: for both themes update_theme returns the record get_global_styles
\* returns for the theme's name, and its backgroundColor, color and fontFamily
\* are the palette's background, text and font; the style on the page is that
\* record.
C6_PageStyleMatchesPalette ==
    /\ \A d \in BOOLEAN :
          LET palette == IF d THEN dark_theme ELSE light_theme
              style   == update_theme(d)
          IN  /\ style = get_global_styles(IF d THEN "dark" ELSE "light")
              /\ style.backgroundColor = palette.background
              /\ style.color = palette.text
              /\ style.fontFamily = palette.font
    /\ "update_theme" \notin pending =>
          page_style = get_global_styles(IF theme_switch THEN "dark" ELSE "light")

\* The dark style is on the page.
C6_Witness ==
    /\ pending = {}
    /\ theme_switch
    /\ page_style = get_global_styles("dark")
    /\ page_style.fontFamily = dark_theme.font

\* C7: after a successful fetch the one candlestick trace rises in "lime" under
\* the dark theme and in "green" under the light one and falls in "red", and
\* the chart's backgrounds and font colour are the graph_bg and graph_text of
\* the theme the switch selects.
C7_ChartColours ==
    (Ran /\ gateway.raises = "none" /\ gateway.lastPrice # None /\ gateway.bars # <<>>) =>
        /\ Len(stock_chart.data) = 1
        /\ stock_chart.data[1].increasing_line_color =
              IF theme_switch THEN "lime" ELSE "green"
        /\ stock_chart.data[1].decreasing_line_color = "red"
        /\ stock_chart.layout.plot_bgcolor =
              IF theme_switch THEN "#3A3A3A" ELSE "#F5F5F5"
        /\ stock_chart.layout.paper_bgcolor = stock_chart.layout.plot_bgcolor
        /\ stock_chart.layout.font_color =
              IF theme_switch THEN "#FFFFFF" ELSE "#000000"

\* A successful fetch under the dark theme.
C7_Witness ==
    /\ Ran
    /\ theme_switch
    /\ live_price = "Current Price: $123.40"
    /\ Len(stock_chart.data) = 1
    /\ stock_chart.data[1].increasing_line_color = "lime"
    /\ stock_chart.layout.plot_bgcolor = "#3A3A3A"

\* Button i of the group was clicked in this step.
Clicked(clicks, clicksNext, i) == clicksNext[i] # clicks[i]

\* C8 as stated: once a period button has been clicked, a click on a period
\* button other than the resolved one leaves the resolved period as it is; the
\* same for the interval buttons.
C8_OtherClickChangesNothing ==
    [][/\ \A i \in Indices :
             (AnyTruthy(period_clicks) /\ i # ResolvedPeriodIndex
                 /\ Clicked(period_clicks, period_clicks', i))
                 => ResolvedPeriodIndex' = ResolvedPeriodIndex
       /\ \A i \in Indices :
             (AnyTruthy(interval_clicks) /\ i # ResolvedIntervalIndex
                 /\ Clicked(interval_clicks, interval_clicks', i))
                 => ResolvedIntervalIndex' = ResolvedIntervalIndex]_vars

\* C8 amended: once a period button has been clicked, a click on a period
\* button that comes after the resolved one in period_options leaves the
\* resolved period as it is; the same for the interval buttons.
C8_LaterClickChangesNothing ==
    [][/\ \A i \in Indices :
             (AnyTruthy(period_clicks) /\ i > ResolvedPeriodIndex
                 /\ Clicked(period_clicks, period_clicks', i))
                 => ResolvedPeriodIndex' = ResolvedPeriodIndex
       /\ \A i \in Indices :
             (AnyTruthy(interval_clicks) /\ i > ResolvedIntervalIndex
                 /\ Clicked(interval_clicks, interval_clicks', i))
                 => ResolvedIntervalIndex' = ResolvedIntervalIndex]_vars

\* "5d" and "3mo" were both clicked, and the period is "5d".
C8_Witness ==
    /\ Ran
    /\ {i \in Indices : Truthy(period_clicks[i])} = {1, 3}
    /\ printed.period = "5d"

\* C9: whenever the page is at rest, update_stock_price is triggered again.
C9_RefreshedWithoutInput ==
    (pending = {}) ~> ("update_stock_price" \in pending)

\* C10: the counters never go down; after the first click of a group the
\* resolved index never goes up; a click on a button before the resolved one
\* selects it, a click on a button after it changes nothing; once "1d" has been
\* clicked the period is "1d"; and with no click at all the period is "1d" as
\* well.  The same for the interval buttons over interval_options.
C10_Group(clicks, clicksNext, resolved, resolvedNext) ==
    /\ \A i \in Indices : Count(clicksNext[i]) >= Count(clicks[i])
    /\ AnyTruthy(clicks) => resolvedNext <= resolved
    /\ \A i \in Indices :
          (AnyTruthy(clicks) /\ Clicked(clicks, clicksNext, i)) =>
              resolvedNext = IF i < resolved THEN i ELSE resolved
    /\ Truthy(clicks[0]) => resolvedNext = 0

C10_State(clicks, option, first) ==
    /\ Truthy(clicks[0]) => option = first
    /\ ~AnyTruthy(clicks) => option = first

C10_ResolvedIndexNeverIncreases ==
    /\ [](/\ C10_State(period_clicks, period_options[ResolvedPeriodIndex], "1d")
          /\ C10_State(interval_clicks, interval_options[ResolvedIntervalIndex], "1m"))
    /\ [][/\ C10_Group(period_clicks, period_clicks',
                       ResolvedPeriodIndex, ResolvedPeriodIndex')
          /\ C10_Group(interval_clicks, interval_clicks',
                       ResolvedIntervalIndex, ResolvedIntervalIndex')]_vars

\* "1d", "1mo" and "1y" were all clicked: the period is "1d".
C10_Witness ==
    /\ Ran
    /\ {i \in Indices : Truthy(period_clicks[i])} = {0, 2, 4}
    /\ printed.period = "1d"

============================================================================
